---------------------------- MODULE Spec2Model ----------------------------
(***************************************************************************)
(* State-machine model of the To-do Manager (src/script.js).               *)
(*                                                                         *)
(* Time is Date.now() in milliseconds, counted from a UTC midnight.  Text  *)
(* is a sequence of one-character strings, so that trim(), toLowerCase()   *)
(* and includes() are computed rather than assumed.  A due date is Null or *)
(* <<d>>, the date string of day d (new Date(str) is that day's UTC        *)
(* midnight).  Every task object carries an oid, its JavaScript object     *)
(* identity: DOM nodes and timers close over the object, not over its id.  *)
(***************************************************************************)
EXTENDS Integers, Sequences, FiniteSets, TLC

VARIABLES
    tasks,        \* let tasks (line 33) when it is an array: the task objects in order
    tasksKind,    \* "array", or what JSON.parse left in tasks: "null", "string"
    storage,      \* localStorage[STORAGE_KEY]: [kind, val]
    controls,     \* searchEl / filterStatus / filterCategory / sortBy values
    nodes,        \* oids of the tasks that have a live <li> in taskListEl
    timers,       \* pending reminder timeouts: [oid, at], oid the task object the closure holds
    ghosts,       \* task objects removed from tasks that a pending timer still holds: [task, at], at the removal time
    pendingDelete,\* ids of the tasks whose delete timeout (220 ms) is pending
    now,          \* Date.now()
    permission,   \* "unsupported" (no Notification in window), "denied", "granted"
    interval,     \* TRUE once init reached setInterval (hourly render)
    last,         \* what the last handler did: [op, threw, evals, due, shown, arg, saveThrew]
    issued,       \* history: per task id ever issued, how often it was marked reminded and notified
    steps         \* how many user events and clock advances have happened

vars == <<tasks, tasksKind, storage, controls, nodes, timers, ghosts,
          pendingDelete, now, permission, interval, last, issued, steps>>

-----------------------------------------------------------------------------
(* Bounds of the model *)

MaxTasks == 4
MaxSubtasks == 2
MaxDays == 2
MaxSteps == 2

(* Program constants, in milliseconds *)
HalfHour == 1800000
Day == 86400000
SeedAge1 == 2000000
SeedAge2 == 500000
SeedAge3 == 100000

Null == <<>>

-----------------------------------------------------------------------------
(* Text: String.prototype.trim, toLowerCase, includes *)

Upper == <<"A","B","C","D","E","F","G","H","I","J","K","L","M",
           "N","O","P","Q","R","S","T","U","V","W","X","Y","Z">>
LowerCase == <<"a","b","c","d","e","f","g","h","i","j","k","l","m",
               "n","o","p","q","r","s","t","u","v","w","x","y","z">>

LowerChar(c) ==
    IF \E i \in 1..Len(Upper) : Upper[i] = c
    THEN LowerCase[CHOOSE i \in 1..Len(Upper) : Upper[i] = c]
    ELSE c

toLowerCase(s) == [i \in 1..Len(s) |-> LowerChar(s[i])]

IsSpace(c) == c \in {" ", "\t", "\n"}

RECURSIVE TrimLeft(_)
TrimLeft(s) ==
    IF s = <<>> THEN <<>>
    ELSE IF IsSpace(Head(s)) THEN TrimLeft(Tail(s)) ELSE s

RECURSIVE TrimRight(_)
TrimRight(s) ==
    IF s = <<>> THEN <<>>
    ELSE IF IsSpace(s[Len(s)]) THEN TrimRight(SubSeq(s, 1, Len(s) - 1)) ELSE s

\* trim() that strips nothing
trimNothing(s) == s

trim(s) == TrimRight(TrimLeft(s))

includes(s, q) ==
    \E i \in 0..(Len(s) - Len(q)) : SubSeq(s, i + 1, i + Len(q)) = q

-----------------------------------------------------------------------------
(* JavaScript numbers, as far as the sort comparators need them *)

JsNum(n) == <<"num", n>>
JsInfinity == <<"inf">>
JsNegInfinity == <<"-inf">>
JsNaN == <<"nan">>

\* ToNumber of a 'YYYY-MM-DD' string: not a numeric literal, hence NaN
DateStringToNumber(due) == JsNaN

JsSub(x, y) ==
    IF x = JsNaN \/ y = JsNaN THEN JsNaN
    ELSE IF x = JsInfinity THEN (IF y = JsInfinity THEN JsNaN ELSE JsInfinity)
    ELSE IF x = JsNegInfinity THEN (IF y = JsNegInfinity THEN JsNaN ELSE JsNegInfinity)
    ELSE IF y = JsInfinity THEN JsNegInfinity
    ELSE IF y = JsNegInfinity THEN JsInfinity
    ELSE JsNum(x[2] - y[2])

\* Array.prototype.sort reads the comparator's result: NaN counts as +0
CompareResult(v) ==
    IF v = JsNaN THEN 0
    ELSE IF v = JsInfinity THEN 1
    ELSE IF v = JsNegInfinity THEN -1
    ELSE IF v[2] > 0 THEN 1 ELSE IF v[2] < 0 THEN -1 ELSE 0

-----------------------------------------------------------------------------
(* Dates *)

\* new Date(task.due).getTime()
DueTime(due) == due[1] * Day

\* getFutureDate(days): the ISO date of now + days
getFutureDate(t, days) == <<(t \div Day) + days>>


-----------------------------------------------------------------------------
(* Tasks *)

\* uid(): Date.now().toString(36) + Math.random().toString(36).slice(2,6);
\* the pair of the clock reading and the random suffix
uid(t, r) == <<t, r>>

\* The random suffixes Math.random() is taken to produce
Rand == {"k3x9", "0abc", "zz01", "q7", "m2n4", "x"}

\* a suffix that makes uid(t, r) differ from every id in ids
FreshSuffix(ids, t) == CHOOSE r \in Rand : uid(t, r) \notin ids

Subtask(text, done) == [text |-> text, done |-> done]

\* the object literal of the submit handler
newTask(oid, id, text, category, priority, due, created) ==
    [oid |-> oid, id |-> id, text |-> text, category |-> category,
     priority |-> priority, due |-> due, created |-> created,
     completed |-> FALSE, subtasks |-> <<>>, reminded |-> FALSE]

\* the sample tasks of seedIfEmpty
SeedTasks(t, r1, r2, r3) ==
    << [newTask(1, uid(t, r1),
                <<"F","i","n","i","s","h"," ","p","r","o","j","e","c","t"," ","r","e","p","o","r","t">>,
                "Work", "High", getFutureDate(t, 1), t - SeedAge1)
          EXCEPT !.subtasks = << Subtask(<<"D","r","a","f","t">>, TRUE),
                                 Subtask(<<"R","e","v","i","e","w">>, FALSE) >>],
       newTask(2, uid(t, r2),
               <<"S","t","u","d","y"," ","O","S"," ","c","h","a","p","t","e","r"," ","4">>,
               "Study", "Medium", getFutureDate(t, 3), t - SeedAge2),
       [newTask(3, uid(t, r3),
                <<"B","u","y"," ","g","r","o","c","e","r","i","e","s">>,
                "Personal", "Low", Null, t - SeedAge3)
          EXCEPT !.subtasks = << Subtask(<<"M","i","l","k">>, FALSE),
                                 Subtask(<<"E","g","g","s">>, FALSE) >>] >>

\* JSON.stringify(tasks): every field of every task, in order; object identity is lost
Serialize(list) == [i \in 1..Len(list) |-> [list[i] EXCEPT !.oid = 0]]

\* JSON.parse of a stored array: fresh objects, in order
Revive(val) == [i \in 1..Len(val) |-> [val[i] EXCEPT !.oid = i]]

Stored(list) == [kind |-> "array", val |-> Serialize(list)]

Ids(list) == {list[i].id : i \in 1..Len(list)}
Oids(list) == {list[i].oid : i \in 1..Len(list)}

\* tasks.findIndex(t => t.id === id): 1-based, 0 when absent
findIndex(list, id) ==
    IF \E i \in 1..Len(list) : list[i].id = id
    THEN CHOOSE i \in 1..Len(list) :
            list[i].id = id /\ \A j \in 1..(i - 1) : list[j].id # id
    ELSE 0

IndexOfObject(list, oid) == CHOOSE i \in 1..Len(list) : list[i].oid = oid

\* Array.prototype.splice(idx, 1) and splice(idx, 0, item), 0-based idx as in the code
RemoveAt(list, idx) == SubSeq(list, 1, idx) \o SubSeq(list, idx + 2, Len(list))
InsertAt(list, idx, item) ==
    LET k == IF idx > Len(list) THEN Len(list) ELSE idx
    IN  SubSeq(list, 1, k) \o <<item>> \o SubSeq(list, k + 1, Len(list))

\* reorderTasks without the splice that puts the item back
reorderTasksNoInsert(list, fromId, toId) ==
    LET fromIdx == findIndex(list, fromId) - 1
        toIdx == findIndex(list, toId) - 1
    IN  IF fromIdx < 0 \/ toIdx < 0 THEN list
        ELSE RemoveAt(list, fromIdx)

reorderTasks(list, fromId, toId) ==
    LET fromIdx == findIndex(list, fromId) - 1
        toIdx == findIndex(list, toId) - 1
    IN  IF fromIdx < 0 \/ toIdx < 0 THEN list
        ELSE InsertAt(RemoveAt(list, fromIdx), toIdx, list[fromIdx + 1])

AllDone(task) == \A i \in 1..Len(task.subtasks) : task.subtasks[i].done

\* updateTaskProgress without the write to task.completed
updateTaskProgressStale(task) == task

\* updateTaskProgress negating task.completed at every call
updateTaskProgressFlip(task) == [task EXCEPT !.completed = ~task.completed]

\* the store effect of updateTaskProgress
updateTaskProgress(task) ==
    IF Len(task.subtasks) > 0
    THEN [task EXCEPT !.completed = AllDone(task)]
    ELSE task

-----------------------------------------------------------------------------
(* applyFilters *)

\* the controls as the page shows them first
DefaultControls == [q |-> <<>>, status |-> "all", cat |-> "all", s |-> "none"]

MatchesSearch(t, q) ==
    \/ includes(toLowerCase(t.text), q)
    \/ \E i \in 1..Len(t.subtasks) : includes(toLowerCase(t.subtasks[i].text), q)

IsOverdue(t, time) == t.due # Null /\ DueTime(t.due) < time /\ ~t.completed

MatchesStatus(t, status, time) ==
    CASE status = "pending"   -> ~t.completed
      [] status = "completed" -> t.completed
      [] status = "overdue"   -> IsOverdue(t, time)
      [] OTHER                -> TRUE

PriorityRank(p) ==
    CASE p = "High" -> 3 [] p = "Medium" -> 2 [] p = "Low" -> 1 [] OTHER -> 0

\* the comparator (a,b) => ... of each sort key, as the number it returns
Comparator(s, a, b) ==
    CASE s = "created_desc"  -> JsSub(JsNum(b.created), JsNum(a.created))
      [] s = "date_asc"      ->
            JsSub(IF a.due # Null THEN DateStringToNumber(a.due) ELSE JsInfinity,
                  IF b.due # Null THEN DateStringToNumber(b.due) ELSE JsInfinity)
      [] s = "date_desc"     ->
            JsSub(IF b.due # Null THEN DateStringToNumber(b.due) ELSE JsNum(0),
                  IF a.due # Null THEN DateStringToNumber(a.due) ELSE JsNum(0))
      [] s = "priority_desc" ->
            JsSub(JsNum(PriorityRank(b.priority)), JsNum(PriorityRank(a.priority)))
      [] OTHER               -> JsNum(0)

\* Array.prototype.sort is stable: x goes before the first element that must follow it
RECURSIVE InsertSorted(_, _, _)
InsertSorted(sorted, x, s) ==
    IF sorted = <<>> THEN <<x>>
    ELSE IF CompareResult(Comparator(s, Head(sorted), x)) > 0
         THEN <<x>> \o sorted
         ELSE <<Head(sorted)>> \o InsertSorted(Tail(sorted), x, s)

RECURSIVE SortFrom(_, _, _)
SortFrom(sorted, rest, s) ==
    IF rest = <<>> THEN sorted
    ELSE SortFrom(InsertSorted(sorted, Head(rest), s), Tail(rest), s)

sort(list, s) == SortFrom(<<>>, list, s)

\* the array whose sort method the sort branch calls, if it were the argument
SortTargetInput == "input"

\* the array whose sort method the sort branch calls: filtered.sort(...)
SortTarget == "filtered"

\* the two arrays of a call of applyFilters(list) when it returns: input is the
\* array passed in, filtered the array the local variable ends up naming.
\* slice() and filter() make new arrays, sort() reorders the array it is called on.
applyFiltersRun(list, c, time) ==
    LET q == toLowerCase(trim(c.q))
        Keep(t) == /\ (q = <<>> \/ MatchesSearch(t, q))
                   /\ MatchesStatus(t, c.status, time)
                   /\ (c.cat = "all" \/ t.category = c.cat)
        sliced == [input |-> list, filtered |-> list]
        kept == [sliced EXCEPT !.filtered = SelectSeq(sliced.filtered, Keep)]
    IN  IF c.s \in {"created_desc", "date_asc", "date_desc", "priority_desc"}
        THEN [kept EXCEPT ![SortTarget] = sort(kept[SortTarget], c.s)]
        ELSE kept

applyFilters(list, c, time) == applyFiltersRun(list, c, time).filtered

-----------------------------------------------------------------------------
(* render and createTaskNode *)

\* createTaskNode assigns to the const dueEl (line 198) when the task is overdue
createTaskNodeThrows(t, time) ==
    t.due # Null /\ DueTime(t.due) < time /\ ~t.completed

\* how many nodes render appends before createTaskNode throws
RECURSIVE NodesBuilt(_, _)
NodesBuilt(filtered, time) ==
    IF filtered = <<>> \/ createTaskNodeThrows(Head(filtered), time) THEN 0
    ELSE 1 + NodesBuilt(Tail(filtered), time)

\* render(): [tasks, nodes, threw, saved].  Every node built ran renderSubtasks,
\* hence updateTaskProgress and save, on its task object.
render(list, c, time) ==
    LET run == applyFiltersRun(list, c, time)
        filtered == run.filtered
        store == run.input
        n == NodesBuilt(filtered, time)
        built == {filtered[i].oid : i \in 1..n}
    IN  [tasks |-> [i \in 1..Len(store) |->
                      IF store[i].oid \in built
                      THEN updateTaskProgress(store[i]) ELSE store[i]],
         nodes |-> built,
         threw |-> n < Len(filtered),
         saved |-> n > 0]

-----------------------------------------------------------------------------
(* scheduleReminders *)

\* the forEach body without the test of task.reminded
EvaluateIgnoringReminded(t, time) ==
    IF t.due = Null THEN "none"
    ELSE LET due == DueTime(t.due)
             remindAt == due - HalfHour
         IN  IF remindAt > time /\ remindAt - time < Day THEN "schedule"
             ELSE IF remindAt <= time /\ due > time THEN "fireNow"
             ELSE "none"

\* what the forEach body decides for one task: "none", "schedule" or "fireNow"
Evaluate(t, time) ==
    IF t.due = Null \/ t.reminded THEN "none"
    ELSE LET due == DueTime(t.due)
             remindAt == due - HalfHour
         IN  IF remindAt > time /\ remindAt - time < Day THEN "schedule"
             ELSE IF remindAt <= time /\ due > time /\ ~t.reminded THEN "fireNow"
             ELSE "none"

\* a notification shown for task object t; gone: t is no longer in tasks
Notice(t, gone) == [id |-> t.id, gone |-> gone, completed |-> t.completed]

\* scheduleReminders ending without its save()
RemindersNotSaved == FALSE

\* the save() that ends scheduleReminders (line 88)
RemindersSaved == TRUE

\* scheduleReminders(): [tasks, timers, shown, saved, marked]; marked holds the ids
\* of the tasks whose reminded it set
scheduleReminders(list, time, perm) ==
    IF perm = "unsupported"
    THEN [tasks |-> list, timers |-> {}, shown |-> {}, saved |-> FALSE, marked |-> {}]
    ELSE [tasks |-> [i \in 1..Len(list) |->
                       IF Evaluate(list[i], time) = "none" THEN list[i]
                       ELSE [list[i] EXCEPT !.reminded = TRUE]],
          timers |-> {[oid |-> list[i].oid, at |-> DueTime(list[i].due) - HalfHour] :
                        i \in {j \in 1..Len(list) : Evaluate(list[j], time) = "schedule"}},
          shown |-> {Notice(list[i], FALSE) :
                        i \in {j \in 1..Len(list) :
                                 /\ Evaluate(list[j], time) = "fireNow"
                                 /\ perm = "granted" /\ ~list[j].completed}},
          saved |-> RemindersSaved,
          marked |-> {list[i].id : i \in {j \in 1..Len(list) :
                                            Evaluate(list[j], time) # "none"}}]

\* the history of reminders: log with the ids in new entered, one more marking
\* for each id in marked, one more notification for each notice in shown
Logged(log, new, marked, shown) ==
    LET Old(id) == IF \E x \in log : x.id = id
                   THEN CHOOSE x \in log : x.id = id
                   ELSE [id |-> id, marked |-> 0, shown |-> 0]
    IN  {[id |-> id,
          marked |-> Old(id).marked + (IF id \in marked THEN 1 ELSE 0),
          shown |-> Old(id).shown + Cardinality({n \in shown : n.id = id})] :
            id \in {x.id : x \in log} \cup new}

-----------------------------------------------------------------------------
(* load, seedIfEmpty, init *)

\* the record of a handler run: whether it threw, how often it ran
\* scheduleReminders, whether it set a due date, the notifications it showed,
\* whether localStorage.setItem threw in it
Last(op, threw, evals, due, shown) ==
    [op |-> op, threw |-> threw, evals |-> evals, due |-> due, shown |-> shown,
     arg |-> <<>>, saveThrew |-> FALSE]

WithArg(l, arg) == [l EXCEPT !.arg = arg]

\* load(): what tasks holds after JSON.parse(getItem(KEY) || '[]') or the catch
load(st) ==
    CASE st.kind \in {"absent", "invalid"} -> [kind |-> "array", val |-> <<>>]
      [] st.kind = "array"                 -> [kind |-> "array", val |-> Revive(st.val)]
      [] OTHER                             -> [kind |-> st.kind, val |-> <<>>]

\* seedIfEmpty(): [threw, kind, val, seeded]; tasks.length of null throws,
\* of an object or a number is undefined, of a non-empty string is truthy
seedIfEmpty(l, time, r1, r2, r3) ==
    CASE l.kind = "null"   -> [threw |-> TRUE, kind |-> l.kind, val |-> l.val, seeded |-> FALSE]
      [] l.kind = "string" -> [threw |-> FALSE, kind |-> l.kind, val |-> l.val, seeded |-> FALSE]
      [] l.kind = "array" /\ Len(l.val) > 0 ->
                              [threw |-> FALSE, kind |-> l.kind, val |-> l.val, seeded |-> FALSE]
      [] OTHER             -> [threw |-> FALSE, kind |-> "array",
                               val |-> SeedTasks(time, r1, r2, r3), seeded |-> TRUE]

\* init(): the state a page load leaves, from the storage it finds
init(st, c, time, perm, r1, r2, r3) ==
    LET l == load(st)
        sd == seedIfEmpty(l, time, r1, r2, r3)
        st1 == IF sd.seeded THEN Stored(sd.val) ELSE st
        rn == render(sd.val, c, time)
        st2 == IF rn.saved THEN Stored(rn.tasks) ELSE st1
        sr == scheduleReminders(rn.tasks, time, perm)
        arg == [found |-> st.kind, loaded |-> l.kind, n |-> Len(l.val)]
    IN  IF sd.threw \/ sd.kind # "array"
        THEN [tasks |-> <<>>, tasksKind |-> sd.kind, storage |-> st, nodes |-> {},
              timers |-> {}, interval |-> FALSE, marked |-> {},
              last |-> WithArg(Last("init", TRUE, 0, FALSE, {}), arg)]
        ELSE IF rn.threw
        THEN [tasks |-> rn.tasks, tasksKind |-> "array", storage |-> st2,
              nodes |-> rn.nodes, timers |-> {}, interval |-> FALSE, marked |-> {},
              last |-> WithArg(Last("init", TRUE, 0, FALSE, {}), arg)]
        ELSE [tasks |-> sr.tasks, tasksKind |-> "array",
              storage |-> IF sr.saved THEN Stored(sr.tasks) ELSE st2,
              nodes |-> rn.nodes, timers |-> sr.timers, interval |-> TRUE,
              marked |-> sr.marked,
              last |-> WithArg(Last("init", FALSE, 1, FALSE, sr.shown), arg)]

-----------------------------------------------------------------------------
(* Inputs *)

MaxPending == 1
MaxTimers == 2

\* the clock readings the handlers see: midday and a quarter to midnight of each day
DayOffsets == {Day \div 2, Day - (HalfHour \div 2)}
Instants == {d * Day + o : d \in 0..(MaxDays - 1), o \in DayOffsets}

\* what localStorage can hold under STORAGE_KEY before the first run
InitialStorage ==
    {[kind |-> k, val |-> <<>>] : k \in {"absent", "invalid", "null", "object", "string"}}

Permissions == {"unsupported", "denied", "granted"}

\* what the user types: blank, or a text with surrounding space
InputTexts == {<<" ", " ">>, <<" ", "T", "a", "x", " ">>}

\* the date input: empty, today or tomorrow
DueChoices(time) == {Null, <<time \div Day>>, <<(time \div Day) + 1>>}

FormChoices == {[category |-> "Work", priority |-> "Low"],
                [category |-> "Personal", priority |-> "High"]}

ControlChoices ==
    {DefaultControls,
     [DefaultControls EXCEPT !.status = "overdue"],
     [q |-> <<"R", "e">>, status |-> "pending", cat |-> "Work", s |-> "priority_desc"]}

\* a dragged text that is no task's id
ForeignId == <<0, "text">>

-----------------------------------------------------------------------------
(* The state machine *)

\* the suffixes of the three uid() calls of seedIfEmpty, when they are all different
DistinctDraws == {<<"k3x9", "0abc", "zz01">>}
\* two suffixes are enough to show what a repeated suffix does
RepeatingRand == {"k3x9", "0abc"}
AnyDraws == RepeatingRand \X RepeatingRand \X RepeatingRand

InitWith(draws) ==
    /\ now \in {t \in Instants : t < Day}
    /\ permission \in Permissions
    /\ controls = DefaultControls
    /\ ghosts = {}
    /\ pendingDelete = {}
    /\ steps = 0
    /\ \E st \in InitialStorage, d \in draws :
         \E s0 \in {init(st, controls, now, permission, d[1], d[2], d[3])} :
             /\ tasks = s0.tasks
             /\ tasksKind = s0.tasksKind
             /\ storage = s0.storage
             /\ nodes = s0.nodes
             /\ timers = s0.timers
             /\ interval = s0.interval
             /\ last = s0.last
             /\ issued = Logged({}, Ids(s0.tasks), s0.marked, s0.last.shown)

\* location.reload(), or the page opened again: timers and nodes are gone
Reload(draws) ==
    /\ steps < MaxSteps
    /\ steps' = steps + 1
    /\ \E d \in draws :
         \E s0 \in {init(storage, DefaultControls, now, permission, d[1], d[2], d[3])} :
             /\ controls' = DefaultControls
             /\ tasks' = s0.tasks
             /\ tasksKind' = s0.tasksKind
             /\ storage' = s0.storage
             /\ nodes' = s0.nodes
             /\ timers' = s0.timers
             /\ interval' = s0.interval
             /\ last' = s0.last
             /\ issued' = Logged(issued, Ids(s0.tasks), s0.marked, s0.last.shown)
    /\ ghosts' = {}
    /\ pendingDelete' = {}
    /\ UNCHANGED <<now, permission>>

Tick ==
    /\ steps < MaxSteps
    /\ steps' = steps + 1
    /\ \E t \in Instants : t > now /\ now' = t
    /\ UNCHANGED <<tasks, tasksKind, storage, controls, nodes, timers, ghosts,
                   pendingDelete, permission, issued, interval, last>>

\* a user event: one more of the MaxSteps events a behaviour holds
UserEvent == steps < MaxSteps /\ steps' = steps + 1

\* a timer callback: not counted
Callback == UNCHANGED steps

\* the tail "save(); render();" of a handler that changed tasks to list
SaveRender(list, op, arg) ==
    \E rn \in {render(list, controls, now)} :
        /\ tasks' = rn.tasks
        /\ storage' = Stored(rn.tasks)
        /\ nodes' = rn.nodes
        /\ last' = WithArg(Last(op, rn.threw, 0, FALSE, {}), arg)

\* an object identity no live reference uses
FreshOid ==
    CHOOSE o \in 1..(MaxTasks + Cardinality(ghosts) + 1) :
        /\ o \notin Oids(tasks)
        /\ o \notin {g.task.oid : g \in ghosts}
        /\ \A p \in 1..(o - 1) : p \in Oids(tasks) \/ p \in {g.task.oid : g \in ghosts}

\* taskForm submit handler
Add(text, form, due, r) ==
    /\ UserEvent
    /\ Len(tasks) < MaxTasks
    /\ Cardinality(timers) < MaxTimers
    /\ IF trim(text) = <<>>
       THEN /\ last' = WithArg(Last("add", FALSE, 0, FALSE, {}),
                               [before |-> tasks, text |-> text])
            /\ UNCHANGED <<tasks, storage, nodes, timers, issued>>
       ELSE IF tasksKind # "array"
       THEN /\ last' = WithArg(Last("add", TRUE, 0, due # Null, {}),
                               [before |-> tasks, text |-> text])
            /\ UNCHANGED <<tasks, storage, nodes, timers, issued>>
       ELSE LET t == newTask(FreshOid, uid(now, r), trim(text), form.category,
                             form.priority, due, now)
                rn == render(<<t>> \o tasks, controls, now)
                sr == scheduleReminders(rn.tasks, now, permission)
            IN  /\ nodes' = rn.nodes
                /\ IF rn.threw
                   THEN /\ tasks' = rn.tasks
                        /\ storage' = Stored(rn.tasks)
                        /\ timers' = timers
                        /\ last' = WithArg(Last("add", TRUE, 0, due # Null, {}),
                                           [before |-> tasks, text |-> text])
                        /\ issued' = Logged(issued, {t.id}, {}, {})
                   ELSE /\ tasks' = sr.tasks
                        /\ storage' = IF sr.saved THEN Stored(sr.tasks) ELSE Stored(rn.tasks)
                        /\ timers' = timers \cup sr.timers
                        /\ last' = WithArg(Last("add", FALSE, 1, due # Null, sr.shown),
                                           [before |-> tasks, text |-> text])
                        /\ issued' = Logged(issued, {t.id}, sr.marked, sr.shown)
    /\ UNCHANGED <<tasksKind, controls, ghosts, pendingDelete, now, permission, interval>>


\* the task object a node or a timer closes over
TaskOf(oid) == tasks[IndexOfObject(tasks, oid)]

\* tasks with the object oid replaced by t (a mutation through the reference)
WithTask(oid, t) == [tasks EXCEPT ![IndexOfObject(tasks, oid)] = t]

\* the tail "save(); renderSubtasks(); ..." of a subtask handler of the node of oid
SaveRenderSubtasks(oid, t, op, arg) ==
    /\ tasks' = WithTask(oid, updateTaskProgress(t))
    /\ storage' = Stored(tasks')
    /\ last' = WithArg(Last(op, FALSE, 0, FALSE, {}), arg)
    /\ UNCHANGED <<tasksKind, controls, nodes, timers, ghosts, pendingDelete,
                   now, permission, issued, interval>>

\* the checkBtn handler marking every subtask done, whatever they were
toggleCompleteMarkAll(t) ==
    IF Len(t.subtasks) > 0
    THEN [t EXCEPT !.subtasks = [i \in 1..Len(t.subtasks) |->
                                   [t.subtasks[i] EXCEPT !.done = TRUE]],
                   !.completed = TRUE]
    ELSE [t EXCEPT !.completed = ~t.completed]

\* what the checkBtn handler writes to its task before save()
toggleComplete(t) ==
    LET allDone == AllDone(t)
    IN  IF Len(t.subtasks) > 0
        THEN [t EXCEPT !.subtasks = [i \in 1..Len(t.subtasks) |->
                                       [t.subtasks[i] EXCEPT !.done = ~allDone]],
                       !.completed = ~allDone]
        ELSE [t EXCEPT !.completed = ~t.completed]

\* checkBtn click handler
ToggleComplete(oid) ==
    /\ UserEvent
    /\ oid \in nodes
    /\ SaveRender(WithTask(oid, updateTaskProgress(toggleComplete(TaskOf(oid)))),
                  "toggleComplete", [before |-> tasks, oid |-> oid])
    /\ UNCHANGED <<tasksKind, controls, timers, ghosts, pendingDelete, now,
                   permission, issued, interval>>

\* titleEl blur handler
EditText(oid, text) ==
    /\ UserEvent
    /\ oid \in nodes
    /\ LET t == TaskOf(oid)
           t1 == [t EXCEPT !.text = IF trim(text) # <<>> THEN trim(text) ELSE t.text]
       IN  SaveRender(WithTask(oid, t1), "editText", [before |-> tasks, text |-> text])
    /\ UNCHANGED <<tasksKind, controls, timers, ghosts, pendingDelete, now,
                   permission, issued, interval>>

\* addSubBtn click handler
AddSubtask(oid, text) ==
    /\ UserEvent
    /\ oid \in nodes
    /\ Len(TaskOf(oid).subtasks) < MaxSubtasks
    /\ IF trim(text) = <<>>
       THEN /\ last' = WithArg(Last("addSubtask", FALSE, 0, FALSE, {}),
                               [before |-> tasks, text |-> text])
            /\ UNCHANGED <<tasks, tasksKind, storage, controls, nodes, timers, ghosts,
                           pendingDelete, now, permission, issued, interval>>
       ELSE LET t == TaskOf(oid)
            IN  SaveRenderSubtasks(oid,
                    [t EXCEPT !.subtasks = Append(t.subtasks, Subtask(trim(text), FALSE))],
                    "addSubtask", [before |-> tasks, text |-> text])

\* the subcheck handler writing done = true instead of negating it
toggleSubtaskSetDone(t, idx) == [t EXCEPT !.subtasks[idx].done = TRUE]

\* s.done = !s.done on subtask idx of task t
toggleSubtask(t, idx) == [t EXCEPT !.subtasks[idx].done = ~t.subtasks[idx].done]

\* subcheck click handler
ToggleSubtask(oid, idx) ==
    /\ UserEvent
    /\ oid \in nodes
    /\ idx \in 1..Len(TaskOf(oid).subtasks)
    /\ SaveRenderSubtasks(oid, toggleSubtask(TaskOf(oid), idx), "toggleSubtask",
                          [before |-> tasks, oid |-> oid, idx |-> idx])

\* delete-sub click handler
RemoveSubtask(oid, idx) ==
    /\ UserEvent
    /\ oid \in nodes
    /\ idx \in 1..Len(TaskOf(oid).subtasks)
    /\ LET t == TaskOf(oid)
       IN  SaveRenderSubtasks(oid,
               [t EXCEPT !.subtasks = RemoveAt(t.subtasks, idx - 1)],
               "removeSubtask", <<>>)

\* subtext blur handler: no renderSubtasks, only save
EditSubtaskText(oid, idx, text) ==
    /\ UserEvent
    /\ oid \in nodes
    /\ idx \in 1..Len(TaskOf(oid).subtasks)
    /\ LET t == TaskOf(oid)
           txt == IF trim(text) # <<>> THEN trim(text) ELSE t.subtasks[idx].text
       IN  /\ tasks' = WithTask(oid, [t EXCEPT !.subtasks[idx].text = txt])
           /\ storage' = Stored(tasks')
    /\ last' = Last("editSubtask", FALSE, 0, FALSE, {})
    /\ UNCHANGED <<tasksKind, controls, nodes, timers, ghosts, pendingDelete,
                   now, permission, issued, interval>>

\* deleteBtn click handler: starts the 220 ms timeout
ClickDelete(oid) ==
    /\ UserEvent
    /\ oid \in nodes
    /\ Cardinality(pendingDelete) < MaxPending
    /\ pendingDelete' = pendingDelete \cup {TaskOf(oid).id}
    /\ last' = Last("clickDelete", FALSE, 0, FALSE, {})
    /\ UNCHANGED <<tasks, tasksKind, storage, controls, nodes, timers, ghosts,
                   now, permission, issued, interval>>

\* the timeout of the delete handler: tasks.filter(t => t.id !== task.id)
DeleteTimeout(id) ==
    /\ Callback
    /\ id \in pendingDelete
    /\ pendingDelete' = pendingDelete \ {id}
    /\ LET Keep(t) == t.id # id
           Gone(t) == t.id = id /\ \E tm \in timers : tm.oid = t.oid
           removed == SelectSeq(tasks, Gone)
       IN  /\ ghosts' = ghosts \cup {[task |-> removed[i], at |-> now] : i \in 1..Len(removed)}
           /\ SaveRender(SelectSeq(tasks, Keep), "delete", <<>>)
    /\ UNCHANGED <<tasksKind, controls, timers, now, permission, issued, interval>>

\* drop handler of the node of oidTo; idFrom is what the drag carried
Drop(idFrom, oidTo) ==
    /\ UserEvent
    /\ oidTo \in nodes
    /\ LET idTo == TaskOf(oidTo).id
       IN  IF idFrom = idTo
           THEN /\ last' = Last("drop", FALSE, 0, FALSE, {})
                /\ UNCHANGED <<tasks, storage, nodes>>
           ELSE SaveRender(reorderTasks(tasks, idFrom, idTo), "drop", <<idFrom, idTo>>)
    /\ UNCHANGED <<tasksKind, controls, timers, ghosts, pendingDelete, now,
                   permission, issued, interval>>

\* render() with nothing saved before it
RenderOnly(c, op) ==
    IF tasksKind # "array"
    THEN /\ last' = WithArg(Last(op, TRUE, 0, FALSE, {}), [before |-> tasks])
         /\ UNCHANGED <<tasks, storage, nodes>>
    ELSE LET rn == render(tasks, c, now)
         IN  /\ tasks' = rn.tasks
             /\ storage' = IF rn.saved THEN Stored(rn.tasks) ELSE storage
             /\ nodes' = rn.nodes
             /\ last' = WithArg(Last(op, rn.threw, 0, FALSE, {}), [before |-> tasks])

\* input event of searchEl, filterStatus, filterCategory or sortBy
FilterInput(c) ==
    /\ UserEvent
    /\ c # controls
    /\ controls' = c
    /\ RenderOnly(c, "filter")
    /\ UNCHANGED <<tasksKind, timers, ghosts, pendingDelete, now, permission, issued, interval>>

\* the setInterval callback of init
HourlyRender ==
    /\ Callback
    /\ interval
    /\ RenderOnly(controls, "interval")
    /\ UNCHANGED <<tasksKind, controls, timers, ghosts, pendingDelete, now,
                   permission, issued, interval>>

\* the setTimeout callback of scheduleReminders, closed over its task object
ReminderTimeout(tm) ==
    /\ Callback
    /\ tm \in timers
    /\ now >= tm.at
    /\ timers' = timers \ {tm}
    /\ LET deleted == tm.oid \notin Oids(tasks)
           g == CHOOSE x \in ghosts : x.task.oid = tm.oid
           t == IF deleted THEN g.task ELSE TaskOf(tm.oid)
           shown == IF permission = "granted" /\ ~t.completed
                    THEN {Notice(t, deleted)} ELSE {}
       IN  /\ last' = WithArg(Last("reminder", FALSE, 0, FALSE, shown),
                              [task |-> t, goneBefore |-> deleted /\ g.at < tm.at])
           /\ issued' = Logged(issued, {}, {}, shown)
           /\ ghosts' = {x \in ghosts : x.task.oid # tm.oid}
    /\ UNCHANGED <<tasks, tasksKind, storage, controls, nodes, pendingDelete, now,
                   permission, interval>>

Handlers ==
    \/ \E oid \in nodes : ToggleComplete(oid)
    \/ \E oid \in nodes, text \in InputTexts : EditText(oid, text)
    \/ \E oid \in nodes, text \in InputTexts : AddSubtask(oid, text)
    \/ \E oid \in nodes, idx \in 1..MaxSubtasks : ToggleSubtask(oid, idx)
    \/ \E oid \in nodes, idx \in 1..MaxSubtasks : RemoveSubtask(oid, idx)
    \/ \E oid \in nodes, idx \in 1..MaxSubtasks, text \in InputTexts :
          EditSubtaskText(oid, idx, text)
    \/ \E oid \in nodes : ClickDelete(oid)
    \/ \E id \in pendingDelete : DeleteTimeout(id)
    \/ \E idFrom \in Ids(tasks) \cup {ForeignId}, oidTo \in nodes : Drop(idFrom, oidTo)
    \/ \E c \in ControlChoices : FilterInput(c)
    \/ HourlyRender
    \/ \E tm \in timers : ReminderTimeout(tm)
    \/ Tick

\* Spec: the runs in which Math.random never repeats a suffix within one clock reading
Init == InitWith(DistinctDraws)

Next ==
    \/ \E text \in InputTexts, form \in FormChoices, due \in DueChoices(now) :
          Add(text, form, due, FreshSuffix({x.id : x \in issued}, now))
    \/ Handlers
    \/ Reload(DistinctDraws)

Spec == Init /\ [][Next]_vars

-----------------------------------------------------------------------------
(* SpecQuota: the same page with localStorage.setItem free to throw           *)
(* QuotaExceededError.  save() has no try/catch, so the throw leaves the      *)
(* handler at its first save() call: what precedes it is done, the rest not.  *)

\* a handler that changed tasks to list and then threw out of save()
SaveThrows(list, op, due) ==
    /\ tasks' = list
    /\ last' = [Last(op, TRUE, 0, due, {}) EXCEPT !.saveThrew = TRUE]
    /\ UNCHANGED <<tasksKind, storage, controls, timers, now, permission, interval>>

\* taskForm submit handler: unshift, then save() throws
AddFull(text, form, due, r) ==
    /\ UserEvent
    /\ Len(tasks) < MaxTasks
    /\ tasksKind = "array"
    /\ trim(text) # <<>>
    /\ LET t == newTask(FreshOid, uid(now, r), trim(text), form.category,
                        form.priority, due, now)
       IN  /\ SaveThrows(<<t>> \o tasks, "add", due # Null)
           /\ issued' = Logged(issued, {t.id}, {}, {})
    /\ UNCHANGED <<nodes, ghosts, pendingDelete>>

\* checkBtn click handler: the writes to the task, then save() throws
ToggleCompleteFull(oid) ==
    /\ UserEvent
    /\ oid \in nodes
    /\ SaveThrows(WithTask(oid, toggleComplete(TaskOf(oid))), "toggleComplete", FALSE)
    /\ UNCHANGED <<nodes, ghosts, pendingDelete, issued>>

\* subcheck click handler: s.done negated, then save() throws before
\* renderSubtasks and updateTaskProgress
ToggleSubtaskFull(oid, idx) ==
    /\ UserEvent
    /\ oid \in nodes
    /\ idx \in 1..Len(TaskOf(oid).subtasks)
    /\ SaveThrows(WithTask(oid, toggleSubtask(TaskOf(oid), idx)), "toggleSubtask", FALSE)
    /\ UNCHANGED <<nodes, ghosts, pendingDelete, issued>>

\* the timeout of the delete handler: tasks filtered, then save() throws.
\* render() does not run: the <li> of the removed task stays in the list, faded
\* to opacity 0; no further event on it is considered.
DeleteTimeoutFull(id) ==
    /\ Callback
    /\ id \in pendingDelete
    /\ pendingDelete' = pendingDelete \ {id}
    /\ LET Keep(t) == t.id # id
           Gone(t) == t.id = id /\ \E tm \in timers : tm.oid = t.oid
           removed == SelectSeq(tasks, Gone)
           kept == SelectSeq(tasks, Keep)
       IN  /\ ghosts' = ghosts \cup {[task |-> removed[i], at |-> now] : i \in 1..Len(removed)}
           /\ nodes' = nodes \cap Oids(kept)
           /\ SaveThrows(kept, "delete", FALSE)
    /\ UNCHANGED issued

\* drop handler: reorderTasks, then save() throws
DropFull(idFrom, oidTo) ==
    /\ UserEvent
    /\ oidTo \in nodes
    /\ idFrom # TaskOf(oidTo).id
    /\ SaveThrows(reorderTasks(tasks, idFrom, TaskOf(oidTo).id), "drop", FALSE)
    /\ UNCHANGED <<nodes, ghosts, pendingDelete, issued>>

NextQuota ==
    \/ Next
    \/ \E text \in InputTexts, form \in FormChoices, due \in DueChoices(now) :
          AddFull(text, form, due, FreshSuffix({x.id : x \in issued}, now))
    \/ \E oid \in nodes : ToggleCompleteFull(oid)
    \/ \E oid \in nodes, idx \in 1..MaxSubtasks : ToggleSubtaskFull(oid, idx)
    \/ \E id \in pendingDelete : DeleteTimeoutFull(id)
    \/ \E idFrom \in Ids(tasks), oidTo \in nodes : DropFull(idFrom, oidTo)

SpecQuota == Init /\ [][NextQuota]_vars

-----------------------------------------------------------------------------
(* SpecUid: the same page with Math.random free to repeat a suffix *)

InitUid == InitWith(AnyDraws)

NextUid ==
    \/ \E text \in InputTexts, form \in FormChoices, due \in DueChoices(now),
          r \in RepeatingRand :
          Add(text, form, due, r)
    \/ \E oid \in nodes : ClickDelete(oid)
    \/ \E id \in pendingDelete : DeleteTimeout(id)
    \/ Reload(AnyDraws)

SpecUid == InitUid /\ [][NextUid]_vars

-----------------------------------------------------------------------------
(* SpecView: a page load that finds a stored list, then filter and sort inputs *)

\* the dates the stored tasks carry: none, 2025-01-05, 2025-01-10 (day 0 being 2025-01-01)
ViewDues == {Null, <<4>>, <<9>>}

ViewPriorities == <<"Low", "High", "Medium">>

\* three tasks added one after the other through the form, newest first
ViewList(d1, d2, d3, t) ==
    << newTask(1, uid(t - 1, "k3x9"), <<"T", "a", "x">>, "Work", ViewPriorities[1], d1, t - 1),
       newTask(2, uid(t - 2, "0abc"), <<"R", "e", "n", "t">>, "Personal", ViewPriorities[2], d2, t - 2),
       newTask(3, uid(t - 3, "zz01"), <<"M", "i", "l", "k">>, "Work", ViewPriorities[3], d3, t - 3) >>

ViewControls ==
    {[DefaultControls EXCEPT !.s = k] :
        k \in {"created_desc", "date_asc", "date_desc", "priority_desc"}}

InitView ==
    /\ now = Day \div 2
    /\ permission = "granted"
    /\ controls = DefaultControls
    /\ ghosts = {}
    /\ pendingDelete = {}
    /\ steps = 0
    /\ \E d1, d2, d3 \in ViewDues, d \in DistinctDraws :
         \E s0 \in {init(Stored(ViewList(d1, d2, d3, now)), controls, now, permission,
                         d[1], d[2], d[3])} :
             /\ tasks = s0.tasks
             /\ tasksKind = s0.tasksKind
             /\ storage = s0.storage
             /\ nodes = s0.nodes
             /\ timers = s0.timers
             /\ interval = s0.interval
             /\ last = s0.last
             /\ issued = Logged({}, Ids(s0.tasks), s0.marked, s0.last.shown)

NextView == \E c \in ViewControls : FilterInput(c)

SpecView == InitView /\ [][NextView]_vars

-----------------------------------------------------------------------------
(* Claims *)

IdSeq(list) == [i \in 1..Len(list) |-> list[i].id]

HasSubtasks(t) == Len(t.subtasks) > 0

\* C1: every task of the store that has subtasks is completed exactly when
\* all its subtasks are done, whatever handlers ran before.
C1_DerivedCompletion ==
    tasksKind = "array" =>
        \A i \in 1..Len(tasks) :
            HasSubtasks(tasks[i]) => (tasks[i].completed <=> AllDone(tasks[i]))

\* C1 witness: a subtask or toggle handler has just run and left a task whose
\* subtasks are all done, and one with an open subtask.
C1_Witness ==
    /\ last.op \in {"toggleSubtask", "toggleComplete", "addSubtask", "removeSubtask"}
    /\ \E i \in 1..Len(tasks) :
          HasSubtasks(tasks[i]) /\ AllDone(tasks[i]) /\ tasks[i].completed
    /\ \E i \in 1..Len(tasks) :
          HasSubtasks(tasks[i]) /\ ~AllDone(tasks[i]) /\ ~tasks[i].completed

\* C2: after a drop that moved the task fromId onto the task toId (both in the
\* store), the fromId task sits immediately before the toId task.
C2_ReorderBeforeTarget ==
    (last.op = "drop" /\ last.arg # <<>> /\ last.arg[1] \in Ids(tasks)) =>
        findIndex(tasks, last.arg[1]) + 1 = findIndex(tasks, last.arg[2])

\* C3: reorder(A, B) a second time changes nothing: after a drop that moved A
\* onto B, reorderTasks(A, B) returns the order the store already has.
C3_ReorderTwiceIsOnce ==
    (last.op = "drop" /\ last.arg # <<>> /\ last.arg[1] \in Ids(tasks)) =>
        reorderTasks(tasks, last.arg[1], last.arg[2]) = tasks

\* C4: the ids of the tasks in the store are pairwise distinct.
C4_UniqueIds ==
    tasksKind = "array" =>
        \A i, j \in 1..Len(tasks) : i # j => tasks[i].id # tasks[j].id

DateAscSorted(v) ==
    \A i, j \in 1..Len(v) :
        i < j => /\ (v[i].due = Null => v[j].due = Null)
                 /\ (v[i].due # Null /\ v[j].due # Null
                        => DueTime(v[i].due) <= DueTime(v[j].due))

\* C5: with sort key date_asc the filtered view lists the dated tasks in
\* non-decreasing due order, followed by the tasks without a due date.
C5_DateAscOrder ==
    (tasksKind = "array" /\ controls.s = "date_asc") =>
        DateAscSorted(applyFilters(tasks, controls, now))

\* C6: when the stored value is absent, not JSON, or JSON that is no array, load
\* leaves tasks an empty array and init runs through without an uncaught error.
C6_LoadDegradesToEmpty ==
    (last.op = "init" /\ last.arg.found # "array") =>
        /\ last.arg.loaded = "array"
        /\ last.arg.n = 0
        /\ ~last.threw

\* C7: the next page load gives back the store of this session, the same ids in
\* the same order, nothing added; a store emptied by a failed load stays empty.
C7_PersistsAcrossSessions ==
    /\ tasksKind = "array" =>
          \A d \in DistinctDraws :
              LET s0 == init(storage, DefaultControls, now, permission, d[1], d[2], d[3])
              IN  s0.tasksKind = "array" /\ IdSeq(s0.tasks) = IdSeq(tasks)
    /\ (last.op = "init" /\ last.arg.found = "invalid") => tasks = <<>>

\* C8: no handler ends in an uncaught error while the store is a task list;
\* render builds a node for every task of the filtered view.
C8_NoUncaughtError == tasksKind = "array" => ~last.threw

\* C9: a page load, and an add that sets a due date, each run
\* scheduleReminders exactly once.
C9_RemindersEvaluated ==
    (tasksKind = "array" /\ (last.op = "init" \/ (last.op = "add" /\ last.due)))
        => last.evals = 1

\* C10: when a reminder timeout fires for a task that was deleted before the
\* fire time, or that is completed, no notification is shown.
C10_NoReminderForGoneTask ==
    (last.op = "reminder" /\ (last.arg.goneBefore \/ last.arg.task.completed))
        => last.shown = {}

\* C11: for every task id ever issued, at most one reminder notification was
\* shown and reminded was set at most once; once set, the task in the store
\* keeps reminded = true, through every handler and page reload.
C11_RemindedOnce ==
    \A x \in issued :
        /\ x.shown <= 1
        /\ x.marked <= 1
        /\ (x.marked = 1 /\ tasksKind = "array") =>
              \A i \in 1..Len(tasks) : tasks[i].id = x.id => tasks[i].reminded

\* C11 witness: a page reload has evaluated the reminders again for a stored
\* task that had already been notified once, and showed nothing for it.
C11_Witness ==
    /\ steps > 0
    /\ last.op = "init"
    /\ ~last.threw
    /\ last.evals = 1
    /\ \E x \in issued : x.shown = 1 /\ x.marked = 1 /\ x.id \in Ids(tasks)

\* C12: the checkBtn handler leaves every other task as it was; on a task with
\* subtasks it sets every done to true, or to false when all were done, and
\* completed to that same value; on a task without subtasks it flips completed.
C12_ToggleComplete ==
    last.op = "toggleComplete" =>
        LET before == last.arg.before
            k == IndexOfObject(before, last.arg.oid)
            old == before[k]
            new == tasks[k]
            v == ~AllDone(old)
        IN  /\ Len(tasks) = Len(before)
            /\ \A i \in 1..Len(tasks) : i # k => tasks[i] = before[i]
            /\ [new EXCEPT !.completed = old.completed, !.subtasks = old.subtasks] = old
            /\ IF HasSubtasks(old)
               THEN /\ Len(new.subtasks) = Len(old.subtasks)
                    /\ \A j \in 1..Len(old.subtasks) :
                          new.subtasks[j] = [old.subtasks[j] EXCEPT !.done = v]
                    /\ new.completed = v
               ELSE /\ new.subtasks = <<>>
                    /\ new.completed = ~old.completed

\* C12 witness: the check button was clicked on a task with one subtask done
\* and one open, next to other tasks.
C12_Witness ==
    /\ last.op = "toggleComplete"
    /\ Len(tasks) > 1
    /\ LET old == last.arg.before[IndexOfObject(last.arg.before, last.arg.oid)]
       IN  /\ HasSubtasks(old)
           /\ ~AllDone(old)
           /\ \E j \in 1..Len(old.subtasks) : old.subtasks[j].done

\* C13: after a click on a subtask's check box, a second click on the same
\* box gives back the store as it was before the first: the subtask's done,
\* the task's derived completed and everything else.
C13_ToggleSubtaskTwice ==
    last.op = "toggleSubtask" =>
        LET k == IndexOfObject(tasks, last.arg.oid)
            again == updateTaskProgress(toggleSubtask(tasks[k], last.arg.idx))
        IN  [tasks EXCEPT ![k] = again] = last.arg.before

\* C13 witness: a subtask click has just changed the derived completed value
\* of its task.
C13_Witness ==
    /\ last.op = "toggleSubtask"
    /\ LET k == IndexOfObject(tasks, last.arg.oid)
       IN  /\ tasks[k].completed # last.arg.before[k].completed
           /\ tasks[k].subtasks[last.arg.idx].done # last.arg.before[k].subtasks[last.arg.idx].done

AllSpace(s) == \A i \in 1..Len(s) : IsSpace(s[i])

\* C14: a submit, a title edit or a subtask add whose text is nothing but
\* white space leaves tasks as it was, and no task or subtask of the store has
\* an empty text.
C14_BlankTextRejected ==
    /\ tasksKind = "array" =>
          \A i \in 1..Len(tasks) :
              /\ tasks[i].text # <<>>
              /\ \A j \in 1..Len(tasks[i].subtasks) : tasks[i].subtasks[j].text # <<>>
    /\ (last.op \in {"add", "editText", "addSubtask"} /\ AllSpace(last.arg.text)) =>
          tasks = last.arg.before

\* C14 witness: a title was edited to white space only, in a store that holds
\* tasks and subtasks.
C14_Witness ==
    /\ last.op = "editText"
    /\ Len(last.arg.text) > 0
    /\ AllSpace(last.arg.text)
    /\ \E i \in 1..Len(tasks) : HasSubtasks(tasks[i])

\* C15: a handler in which the storage write failed still ends without an
\* uncaught error, and a submit with a due date still ran scheduleReminders.
C15_SaveFailureContained ==
    last.saveThrew =>
        /\ ~last.threw
        /\ (last.op = "add" /\ last.due) => last.evals = 1

\* C16: whatever the search text, status, category and sort key, the array
\* passed to applyFilters holds the same tasks in the same order when the call
\* returns.
C16_InputPreserved ==
    tasksKind = "array" =>
        \A c \in ViewControls \cup ControlChoices :
            applyFiltersRun(tasks, c, now).input = tasks

\* C16 witness: a sort key was chosen under which the filtered view has an
\* order other than the store's.
C16_Witness ==
    /\ last.op = "filter"
    /\ controls.s = "priority_desc"
    /\ Len(tasks) = 3
    /\ applyFilters(tasks, controls, now) # tasks
    /\ Len(applyFilters(tasks, controls, now)) = Len(tasks)

MutatingOps ==
    {"init", "add", "delete", "toggleComplete", "addSubtask", "toggleSubtask",
     "removeSubtask", "editText", "editSubtask", "drop"}

\* C17: when a handler that changes the store has ended, localStorage holds
\* the JSON of tasks as it is in memory, every field of every task in order.
C17_PersistedEqualsMemory ==
    (tasksKind = "array" /\ last.op \in MutatingOps) => storage = Stored(tasks)

\* C17 witness: a submit has added a task, and scheduleReminders marked it
\* reminded after the handler's first save().
C17_Witness ==
    /\ last.op = "add"
    /\ last.evals = 1
    /\ Len(tasks) > Len(last.arg.before)
    /\ tasks[1].reminded
    /\ \E i \in 1..Len(tasks) : HasSubtasks(tasks[i])

\* C18: a render started by the hourly interval or by a search, filter or
\* sort input leaves tasks as it was: the same task objects in the same order,
\* with every field, completed, subtasks and reminded included.
C18_RenderKeepsStore ==
    (tasksKind = "array" /\ last.op \in {"interval", "filter"}) =>
        tasks = last.arg.before

\* C18 witness: the hourly render has rebuilt the node of a task with
\* subtasks, running updateTaskProgress on it.
C18_Witness ==
    /\ last.op = "interval"
    /\ tasksKind = "array"
    /\ steps > 0
    /\ \E i \in 1..Len(tasks) : HasSubtasks(tasks[i]) /\ tasks[i].oid \in nodes

\* C19: for every pair of ids, present or not, reorderTasks returns the tasks
\* of the store, each as often as before; the tasks other than fromId are in
\* the order they had; and with an id that no task has the order is unchanged.
C19_ReorderPermutes ==
    tasksKind = "array" =>
        \A a, b \in Ids(tasks) \cup {ForeignId} :
            LET r == reorderTasks(tasks, a, b)
                Other(t) == t.id # a
            IN  /\ Len(r) = Len(tasks)
                /\ \A i \in 1..Len(tasks) :
                      Cardinality({j \in 1..Len(r) : r[j] = tasks[i]})
                          = Cardinality({j \in 1..Len(tasks) : tasks[j] = tasks[i]})
                /\ SelectSeq(r, Other) = SelectSeq(tasks, Other)
                /\ (a \notin Ids(tasks) \/ b \notin Ids(tasks)) => r = tasks

\* C19 witness: a drop has moved a task of a store of at least three tasks
\* onto another one.
C19_Witness ==
    /\ last.op = "drop"
    /\ last.arg # <<>>
    /\ last.arg[1] \in Ids(tasks)
    /\ last.arg[2] \in Ids(tasks)
    /\ Len(tasks) >= 3
    /\ reorderTasks(tasks, last.arg[1], last.arg[2]) # tasks

=============================================================================
